---- MODULE Spec2Model ----
(***************************************************************************)
(* Movie Manager: the client-side request / response / cache contract      *)
(* between the React views (App, MovieList, MovieForm,                     *)
(* RelationshipManager) and the GraphQL endpoint, as a state machine.      *)
(*                                                                         *)
(* The GraphQL service is external: a request in flight is answered by a   *)
(* success or by a failure, and a read is answered with any movie list     *)
(* the service may hold.                                                   *)
(*                                                                         *)
(* The repository holds the application once per chapter.  A run follows   *)
(* one of two snapshots: "chapter5" is App, MovieList and MovieForm of     *)
(* chapter 5 (list, create, edit, delete); "chapter7" is the application   *)
(* with the RelationshipManager, where the run follows the relationship    *)
(* workflow (list, manage).                                                *)
(***************************************************************************)
EXTENDS Naturals, Sequences, FiniteSets, Bags, TLC

(***************************************************************************)
(* Bounds of the model.                                                    *)
(***************************************************************************)
\* mutations that may be in flight at once
MaxInFlight == 2
\* movies in one GetMovies response
MaxMovies == 1
\* Movie nodes in the graph of the service
MaxNodes == 3

(***************************************************************************)
(* Values.  A title is a sequence of characters so that trim() is          *)
(* computed; the other fields are opaque.                                  *)
(***************************************************************************)
\* JavaScript undefined, for the optional text and number fields
Undefined == "undefined"
\* parseInt('') of the cleared number input
NaN == "NaN"
\* undefined as the value of formData.title (handleChange stores it for '')
UndefinedTitle == <<"undefined">>
EmptyTitle == <<>>
BlankTitle == <<" ">>

\* the titles the service holds, and the titles the user types
Titles == {<<"A">>}
TypedTitles == {<<"M">>}
Years == {"2016"}
Taglines == {"tag"}
People == {"p1"}

\* what the user can type in the three inputs
TitleInputs == {EmptyTitle, BlankTitle} \cup TypedTitles
ReleasedInputs == {"1999"}
TaglineInputs == Taglines

NoMovie == [title |-> UndefinedTitle]

\* the relationships of the service's data: a cast member, or a director
Casts == {[peopleActedIn |-> {p}, peopleDirected |-> {}] : p \in People}
         \cup {[peopleActedIn |-> {}, peopleDirected |-> {p}] : p \in People}

Movies == {[title |-> t, released |-> y, tagline |-> g,
            peopleActedIn |-> c.peopleActedIn, peopleDirected |-> c.peopleDirected] :
           t \in Titles, y \in Years, g \in Taglines, c \in Casts}

MovieLists == {l \in SUBSET Movies : Cardinality(l) <= MaxMovies}

\* the data of a cache entry: <<>> while none is stored, <<d>> once d is
NoData == <<>>

Views == {"list", "create", "edit", "manage"}

MutationOps == {"CreateMovie", "UpdateMovie", "DeleteMovie", "AssignActor",
                "RemoveActor", "AssignDirector", "RemoveDirector"}

(***************************************************************************)
(* String.prototype.trim on a sequence of characters.                      *)
(***************************************************************************)
RECURSIVE TrimLeft(_)
TrimLeft(s) ==
    IF s # <<>> /\ Head(s) = " " THEN TrimLeft(Tail(s)) ELSE s

RECURSIVE TrimRight(_)
TrimRight(s) ==
    IF s # <<>> /\ s[Len(s)] = " " THEN TrimRight(SubSeq(s, 1, Len(s) - 1)) ELSE s

Trim(s) == TrimRight(TrimLeft(s))

VARIABLES
    chapter,        \* the snapshot of the application the run follows
    view,           \* App: which view is rendered
    selectedMovie,  \* App: the movie handed to the edit form / the manager
    formData,       \* MovieForm: the three inputs
    selectedPerson, \* RelationshipManager: the person dropdown
    relationType,   \* RelationshipManager: the role dropdown
    queryCache,     \* the QueryClient's entries for ['movies'] and ['people']
    mutations,      \* the mutations in flight, per hook and observer link
    event,          \* what the last step showed to the user, sent and received
    searchTerm,     \* Search: the text of the search box
    activeSearch,   \* Search: the term of the query key ['search', activeSearch]
    searchCache,    \* the QueryClient's entries for the keys ['search', term]
    sync,           \* how the ['movies'] entry stands to the server's writes
    server          \* the Movie nodes of the service and its last answer

vars == <<chapter, view, selectedMovie, formData, selectedPerson, relationType,
          queryCache, mutations, event, searchTerm, activeSearch, searchCache,
          sync, server>>

(***************************************************************************)
(* Component state at mount.                                               *)
(***************************************************************************)
InitialFormData == [title |-> EmptyTitle, released |-> Undefined, tagline |-> ""]

\* useEffect of the edit form: the inputs are filled from the movie prop
Prefill(movie) ==
    [title |-> movie.title, released |-> movie.released, tagline |-> movie.tagline]

(***************************************************************************)
(* The query cache.  No staleTime is configured, so data is stale as soon  *)
(* as it is stored; retry is 1.                                            *)
(***************************************************************************)
Retry == 1

StaleByTime == TRUE

NewQuery ==
    [status |-> "pending", data |-> NoData, isInvalidated |-> FALSE,
     fetchStatus |-> "idle", fetchFailureCount |-> 0]

IsStale(q) == q.isInvalidated \/ q.data = NoData \/ StaleByTime

\* a transport call for the entry starts
StartFetch(q) ==
    [q EXCEPT !.fetchStatus = "fetching", !.fetchFailureCount = 0,
              !.status = IF q.data = NoData THEN "pending" ELSE q.status]

\* a mount that serves whatever the cache holds and sends nothing
MountQueryFromCache(cache, key) == cache

\* a component holding useQuery(key) mounts: a stale entry is fetched, and a
\* fetch already in flight is shared
MountQuery(cache, key) ==
    IF IsStale(cache[key]) /\ cache[key].fetchStatus = "idle"
    THEN [cache EXCEPT ![key] = StartFetch(cache[key])]
    ELSE cache

\* which useQuery observers are mounted in a view
ActiveKeys(v, movie) ==
    IF v = "list" THEN {"movies"}
    ELSE IF v = "manage" /\ movie # NoMovie THEN {"people"}
    ELSE {}

\* queryClient.invalidateQueries({ queryKey: [key] }) while view v is rendered:
\* the entry is marked stale, and refetched at once when it has an observer
InvalidateQueries(cache, key, v, movie) ==
    LET q == [cache[key] EXCEPT !.isInvalidated = TRUE] IN
    IF key \in ActiveKeys(v, movie)
       /\ ~(q.fetchStatus = "fetching" /\ q.data = NoData)
    THEN [cache EXCEPT ![key] = StartFetch(q)]
    ELSE [cache EXCEPT ![key] = q]

(***************************************************************************)
(* Mutations in flight.  No callback reads the variables or the response   *)
(* of a mutation, so the mutation cache is kept as the number of mutations *)
(* in flight per hook and per link to the hook's observer: "current" (the  *)
(* hook's latest mutate call), "superseded" (the same hook was called      *)
(* again) or "orphan" (the component holding the hook has unmounted).  The *)
(* callbacks given to useMutation run in all three cases.  What a dispatch *)
(* sends is recorded in event.request.                                     *)
(***************************************************************************)
Observers == {"current", "superseded", "orphan"}

NoMutations == [op \in MutationOps |-> [o \in Observers |-> 0]]

\* the number of mutations of a hook among some observer links
Count(muts, op, obs) ==
    (IF "current" \in obs THEN muts[op]["current"] ELSE 0)
    + (IF "superseded" \in obs THEN muts[op]["superseded"] ELSE 0)
    + (IF "orphan" \in obs THEN muts[op]["orphan"] ELSE 0)

\* the number of mutations in flight
InFlight(muts) ==
    Count(muts, "CreateMovie", Observers) + Count(muts, "UpdateMovie", Observers)
    + Count(muts, "DeleteMovie", Observers) + Count(muts, "AssignActor", Observers)
    + Count(muts, "RemoveActor", Observers) + Count(muts, "AssignDirector", Observers)
    + Count(muts, "RemoveDirector", Observers)

\* hook.isPending of the mounted component
IsPending(op) == mutations[op]["current"] > 0

\* the mutations of a hook in flight that the mounted component dispatched
Live(op) == Count(mutations, op, {"current", "superseded"})

\* hook.mutate(variables): the hook's observer follows the new mutation
Mutate(muts, op) ==
    [muts EXCEPT ![op] = [current |-> 1,
                          superseded |-> @["superseded"] + @["current"],
                          orphan |-> @["orphan"]]]

\* the component that holds the hooks unmounts
Orphaned(muts) ==
    [op \in MutationOps |->
        [current |-> 0, superseded |-> 0,
         orphan |-> muts[op]["current"] + muts[op]["superseded"] + muts[op]["orphan"]]]

\* the response to a mutation of hook op with observer link o has arrived
Settled(muts, op, o) == [muts EXCEPT ![op][o] = @ - 1]

NoRequest == [op |-> "none"]

Request(op, variables) == [op |-> op, variables |-> variables]

NoResponse == [op |-> "none"]

\* the settled request: its operation, whether graphqlClient.request resolved,
\* and the link of the request to its observer when it settled
Response(op, ok, link) == [op |-> op, ok |-> ok, link |-> link]

\* what a step showed, sent and received: the alert or error message, the
\* mutation request handed to graphqlClient.request, the settled request, and
\* the answer to window.confirm ("none" when the step asked nothing)
Shown(alert) ==
    [alert |-> alert, request |-> NoRequest, response |-> NoResponse,
     confirmed |-> "none"]

Sent(op, variables) ==
    [alert |-> "none", request |-> Request(op, variables),
     response |-> NoResponse, confirmed |-> "none"]

Received(op, ok, link, alert) ==
    [alert |-> alert, request |-> NoRequest, response |-> Response(op, ok, link),
     confirmed |-> "none"]

Quiet == Shown("none")

\* the user answered Cancel in window.confirm
Declined == [Quiet EXCEPT !.confirmed = "no"]

\* the user answered OK in window.confirm and the handler sent the request
SentConfirmed(op, variables) == [Sent(op, variables) EXCEPT !.confirmed = "yes"]

(***************************************************************************)
(* The service: the Movie nodes of the graph, as a bag of the scalar       *)
(* fields of each node, and the answer to the last request.  The type      *)
(* definitions put no constraint on title, so two nodes may carry the same *)
(* title.  The runs of the application do not follow the graph.            *)
(***************************************************************************)
\* the scalar fields a node can carry: those of the data the service holds and
\* those a form can send
\* a tagline typed in the form, other than the ones of the data set
TypedTaglines == {"new"}

ServerMovies ==
    {[title |-> t, released |-> y, tagline |-> g] :
        t \in Titles \cup TypedTitles, y \in Years \cup ReleasedInputs,
        g \in Taglines \cup TypedTaglines}

NoServer == [movies |-> EmptyBag, response |-> NoData]

(***************************************************************************)
(* The GraphQL endpoint answers a read with the graph as it is when the    *)
(* read is processed, at some time between the request and the response.   *)
(* sync follows how the ['movies'] entry stands to the writes of the       *)
(* mutations that have succeeded: fetch says that the transport call in    *)
(* flight was sent after the last of them (TRUE while no call is in        *)
(* flight), cache says that the data stored was read after the last of     *)
(* them (TRUE while no data is stored), and selected says that             *)
(* selectedMovie was taken from such data (TRUE while no movie is          *)
(* selected).  A run that starts from NoSync does not follow them.         *)
(***************************************************************************)
NoSync == [tracked |-> FALSE, fetch |-> TRUE, cache |-> TRUE, selected |-> TRUE]

InSync == [tracked |-> TRUE, fetch |-> TRUE, cache |-> TRUE, selected |-> TRUE]

(***************************************************************************)
(* App: rendering a view.  Going to another view unmounts the component    *)
(* shown and mounts a new instance with its initial state.                 *)
(***************************************************************************)
Render(v, movie, cache, muts) ==
    IF v = view
    THEN /\ view' = view
         /\ selectedMovie' = movie
         /\ queryCache' = cache
         /\ mutations' = muts
         /\ UNCHANGED <<formData, selectedPerson, relationType>>
    ELSE /\ view' = v
         /\ selectedMovie' = movie
         /\ formData' = IF v = "edit" /\ movie # NoMovie
                        THEN Prefill(movie) ELSE InitialFormData
         /\ selectedPerson' = ""
         /\ relationType' = "actor"
         /\ mutations' = Orphaned(muts)
         /\ queryCache' =
                IF ActiveKeys(v, movie) = {} THEN cache
                ELSE MountQuery(cache, CHOOSE k \in ActiveKeys(v, movie) : TRUE)

\* Search as it mounts: both terms are '', and the observer of ['search', '']
\* is not enabled
SearchMounted(cache) ==
    /\ searchTerm = <<>>
    /\ activeSearch = <<>>
    /\ searchCache = cache

Init ==
    /\ chapter \in {"chapter5", "chapter7"}
    /\ view = "list"
    /\ selectedMovie = NoMovie
    /\ formData = InitialFormData
    /\ selectedPerson = ""
    /\ relationType = "actor"
    /\ queryCache = [k \in {"movies", "people"} |->
                        IF k = "movies" THEN StartFetch(NewQuery) ELSE NewQuery]
    /\ mutations = NoMutations
    /\ event = Quiet
    /\ SearchMounted(<<>> :> NewQuery)
    /\ sync = NoSync
    /\ server = NoServer

\* nav button Movies: setView('list')
NavMovies ==
    /\ Render("list", selectedMovie, queryCache, mutations)
    /\ event' = Quiet

\* nav button Add Movie of chapter 5: setView('create')
NavAddMovie ==
    /\ Render("create", selectedMovie, queryCache, mutations)
    /\ event' = Quiet

\* the movie cards are rendered once the list has loaded without error
ListShown ==
    /\ view = "list"
    /\ queryCache["movies"].data # NoData
    /\ queryCache["movies"].status # "error"

\* data.movies of the rendered list
ListMovies == IF ListShown THEN queryCache["movies"].data[1] ELSE {}

\* edit button of a movie card
handleEdit(movie) ==
    /\ movie \in ListMovies
    /\ Render("edit", movie, queryCache, mutations)
    /\ event' = Quiet

\* a handleManage that sets the view and not the movie
handleManageViewOnly(movie) ==
    /\ movie \in ListMovies
    /\ Render("manage", selectedMovie, queryCache, mutations)
    /\ event' = Quiet

\* manage button of a movie card
handleManage(movie) ==
    /\ movie \in ListMovies
    /\ Render("manage", movie, queryCache, mutations)
    /\ event' = Quiet

\* handleComplete without setSelectedMovie(undefined)
handleCompleteKeepingMovie(cache, muts) == Render("list", selectedMovie, cache, muts)

\* onComplete: setView('list'); setSelectedMovie(undefined)
handleComplete(cache, muts) == Render("list", NoMovie, cache, muts)

\* Cancel button of the form, Done button of the manager
Cancel ==
    /\ view \in {"create", "edit", "manage"}
    /\ handleComplete(queryCache, mutations)
    /\ event' = Quiet

(***************************************************************************)
(* MovieForm                                                               *)
(***************************************************************************)
FormMounted == view = "create" \/ (view = "edit" /\ selectedMovie # NoMovie)

\* const isEditing = !!movie
isEditing == view = "edit" /\ selectedMovie # NoMovie

\* a title input that stays enabled in edit mode
TitleEnabled == FALSE

\* disabled={isEditing} of the title input
TitleDisabled == isEditing

\* [field]: value === '' ? undefined : value, for the title input
handleChangeTitle(value) ==
    /\ FormMounted
    /\ ~TitleDisabled
    /\ formData' = [formData EXCEPT
                        !.title = IF value = EmptyTitle THEN UndefinedTitle ELSE value]
    /\ formData' # formData
    /\ event' = Quiet
    /\ UNCHANGED <<view, selectedMovie, selectedPerson, relationType,
                   queryCache, mutations>>

\* the number input hands parseInt(e.target.value) to handleChange
handleChangeReleased(value) ==
    /\ FormMounted
    /\ formData' = [formData EXCEPT !.released = value]
    /\ formData' # formData
    /\ event' = Quiet
    /\ UNCHANGED <<view, selectedMovie, selectedPerson, relationType,
                   queryCache, mutations>>

handleChangeTagline(value) ==
    /\ FormMounted
    /\ formData' = [formData EXCEPT
                        !.tagline = IF value = "" THEN Undefined ELSE value]
    /\ formData' # formData
    /\ event' = Quiet
    /\ UNCHANGED <<view, selectedMovie, selectedPerson, relationType,
                   queryCache, mutations>>

\* disabled={createMovieMutation.isPending} of the submit button
SubmitDisabled == IsPending("CreateMovie")

\* the title input is required: the browser refuses to submit the form while
\* the enabled input is empty
RequiredMissing ==
    ~TitleDisabled /\ formData.title \in {EmptyTitle, UndefinedTitle}

\* if (!formData.title), without trim()
TitleIsEmpty(title) == title = <<>>

\* if (!formData.title.trim())
TitleIsBlank(title) == Trim(title) = <<>>

\* the two mutations the other way round
SubmitOpSwapped == IF isEditing THEN "CreateMovie" ELSE "UpdateMovie"

\* the mutation handleSubmit dispatches
SubmitOp == IF isEditing THEN "UpdateMovie" ELSE "CreateMovie"

\* the body of handleSubmit
handleSubmit ==
    IF TitleIsBlank(formData.title)
    THEN /\ event' = Shown("Please enter a movie title")
         /\ UNCHANGED <<view, selectedMovie, formData, selectedPerson,
                        relationType, queryCache, mutations>>
    ELSE /\ InFlight(mutations) < MaxInFlight
         /\ mutations' = Mutate(mutations, SubmitOp)
         /\ event' = Sent(SubmitOp, formData)
         /\ UNCHANGED <<view, selectedMovie, formData, selectedPerson,
                        relationType, queryCache>>

\* the user presses the submit button (or Enter in an input)
Submit ==
    /\ FormMounted
    /\ IF SubmitDisabled \/ RequiredMissing
       THEN /\ event' = Quiet
            /\ UNCHANGED <<view, selectedMovie, formData, selectedPerson,
                           relationType, queryCache, mutations>>
       ELSE handleSubmit

\* createMovieMutation.onSuccess
CreateOnSuccess(o) ==
    /\ mutations["CreateMovie"][o] > 0
    /\ handleComplete(InvalidateQueries(queryCache, "movies", view, selectedMovie),
                      Settled(mutations, "CreateMovie", o))
    /\ event' = Received("CreateMovie", TRUE, o, "none")

\* an onError that invalidates the movie list as onSuccess does
CreateOnErrorInvalidating(o) ==
    /\ mutations["CreateMovie"][o] > 0
    /\ queryCache' = InvalidateQueries(queryCache, "movies", view, selectedMovie)
    /\ mutations' = Settled(mutations, "CreateMovie", o)
    /\ event' = Received("CreateMovie", FALSE, o, "Failed to create movie")
    /\ UNCHANGED <<view, selectedMovie, formData, selectedPerson, relationType>>

\* a createMovieMutation whose failure leaves the mutation in flight
CreateOnErrorUnsettled(o) ==
    /\ mutations["CreateMovie"][o] > 0
    /\ event' = Received("CreateMovie", FALSE, o, "Failed to create movie")
    /\ UNCHANGED <<view, selectedMovie, formData, selectedPerson,
                   relationType, queryCache, mutations>>

\* createMovieMutation.onError
CreateOnError(o) ==
    /\ mutations["CreateMovie"][o] > 0
    /\ mutations' = Settled(mutations, "CreateMovie", o)
    /\ event' = Received("CreateMovie", FALSE, o, "Failed to create movie")
    /\ UNCHANGED <<view, selectedMovie, formData, selectedPerson,
                   relationType, queryCache>>

\* updateMovieMutation.onSuccess
UpdateOnSuccess(o) ==
    /\ mutations["UpdateMovie"][o] > 0
    /\ handleComplete(InvalidateQueries(queryCache, "movies", view, selectedMovie),
                      Settled(mutations, "UpdateMovie", o))
    /\ event' = Received("UpdateMovie", TRUE, o, "none")

\* updateMovieMutation.onError
UpdateOnError(o) ==
    /\ mutations["UpdateMovie"][o] > 0
    /\ mutations' = Settled(mutations, "UpdateMovie", o)
    /\ event' = Received("UpdateMovie", FALSE, o, "Failed to update movie")
    /\ UNCHANGED <<view, selectedMovie, formData, selectedPerson,
                   relationType, queryCache>>

(***************************************************************************)
(* The two reads: useQuery(['movies']) of MovieList and                    *)
(* useQuery(['people']) of RelationshipManager.  A fetch goes on when its  *)
(* component unmounts, and its result is stored.                           *)
(***************************************************************************)
\* what the service may answer: a list of movies, or the people it holds
Responses(key) == IF key = "movies" THEN MovieLists ELSE {People}

QueryShown(key) == key \in ActiveKeys(view, selectedMovie)

\* the GraphQL document of a read key
ReadOp(key) == IF key = "movies" THEN "GetMovies" ELSE "GetPeople"

\* whether the component holding useQuery(key) is still mounted
ReadLink(key) == IF QueryShown(key) THEN "current" ELSE "orphan"

\* graphqlClient.request resolves
FetchSuccess(key, data) ==
    /\ queryCache[key].fetchStatus = "fetching"
    /\ queryCache' = [queryCache EXCEPT ![key] =
            [status |-> "success", data |-> <<data>>, isInvalidated |-> FALSE,
             fetchStatus |-> "idle", fetchFailureCount |-> 0]]
    /\ event' = Quiet
    /\ UNCHANGED <<view, selectedMovie, formData, selectedPerson,
                   relationType, mutations>>

\* a FetchRetry that allows one retry more than retry: 1
FetchRetryTwice(key) ==
    /\ queryCache[key].fetchStatus = "fetching"
    /\ QueryShown(key)
    /\ queryCache[key].fetchFailureCount < Retry + 1
    /\ queryCache' = [queryCache EXCEPT ![key].fetchFailureCount = @ + 1]
    /\ event' = Quiet
    /\ UNCHANGED <<view, selectedMovie, formData, selectedPerson,
                   relationType, mutations>>

\* graphqlClient.request rejects and the query is tried again (retry: 1); a
\* query whose component has unmounted is not tried again
FetchRetry(key) ==
    /\ queryCache[key].fetchStatus = "fetching"
    /\ QueryShown(key)
    /\ queryCache[key].fetchFailureCount < Retry
    /\ queryCache' = [queryCache EXCEPT ![key].fetchFailureCount = @ + 1]
    /\ event' = Quiet
    /\ UNCHANGED <<view, selectedMovie, formData, selectedPerson,
                   relationType, mutations>>

\* what the component renders for a failed read: MovieList renders
\* "Error: ..." from error; RelationshipManager reads only data and isLoading
ErrorShown(key) ==
    IF key = "movies" /\ QueryShown(key) THEN "Error: " ELSE "none"

\* graphqlClient.request rejects and no retry is left
FetchError(key) ==
    /\ queryCache[key].fetchStatus = "fetching"
    /\ queryCache[key].fetchFailureCount >= Retry \/ ~QueryShown(key)
    /\ queryCache' = [queryCache EXCEPT ![key].status = "error",
                                         ![key].fetchStatus = "idle",
                                         ![key].fetchFailureCount = @ + 1]
    /\ event' = Received(ReadOp(key), FALSE, ReadLink(key), ErrorShown(key))
    /\ UNCHANGED <<view, selectedMovie, formData, selectedPerson,
                   relationType, mutations>>

(***************************************************************************)
(* MovieList: delete                                                       *)
(***************************************************************************)
\* disabled={deleteMovieMutation.isPending} of every Delete button
DeleteDisabled == IsPending("DeleteMovie")

\* a handleDelete that also takes the movie out of the cached list at once
handleDeleteOptimistic(movie, confirmed) ==
    /\ movie \in ListMovies
    /\ ~DeleteDisabled
    /\ IF confirmed
       THEN /\ InFlight(mutations) < MaxInFlight
            /\ mutations' = Mutate(mutations, "DeleteMovie")
            /\ event' = SentConfirmed("DeleteMovie", [title |-> movie.title])
            /\ queryCache' = [queryCache EXCEPT
                    !["movies"].data = <<{m \in ListMovies : m.title # movie.title}>>]
       ELSE /\ UNCHANGED <<mutations, queryCache>>
            /\ event' = Declined
    /\ UNCHANGED <<view, selectedMovie, formData, selectedPerson, relationType>>

\* a handleDelete that calls mutate whatever window.confirm returned
handleDeleteUnasked(movie, confirmed) ==
    /\ movie \in ListMovies
    /\ ~DeleteDisabled
    /\ InFlight(mutations) < MaxInFlight
    /\ mutations' = Mutate(mutations, "DeleteMovie")
    /\ event' = [Sent("DeleteMovie", [title |-> movie.title])
                    EXCEPT !.confirmed = IF confirmed THEN "yes" ELSE "no"]
    /\ UNCHANGED <<view, selectedMovie, formData, selectedPerson,
                   relationType, queryCache>>

\* handleDelete: window.confirm, then deleteMovieMutation.mutate(movie.title)
handleDelete(movie, confirmed) ==
    /\ movie \in ListMovies
    /\ ~DeleteDisabled
    /\ IF confirmed
       THEN /\ InFlight(mutations) < MaxInFlight
            /\ mutations' = Mutate(mutations, "DeleteMovie")
            /\ event' = SentConfirmed("DeleteMovie", [title |-> movie.title])
       ELSE /\ UNCHANGED mutations
            /\ event' = Declined
    /\ UNCHANGED <<view, selectedMovie, formData, selectedPerson,
                   relationType, queryCache>>

\* an onSuccess without invalidateQueries
DeleteOnSuccessWithoutInvalidation(o) ==
    /\ mutations["DeleteMovie"][o] > 0
    /\ mutations' = Settled(mutations, "DeleteMovie", o)
    /\ event' = Received("DeleteMovie", TRUE, o, "none")
    /\ UNCHANGED <<view, selectedMovie, formData, selectedPerson,
                   relationType, queryCache>>

\* deleteMovieMutation.onSuccess
DeleteOnSuccess(o) ==
    /\ mutations["DeleteMovie"][o] > 0
    /\ queryCache' = InvalidateQueries(queryCache, "movies", view, selectedMovie)
    /\ mutations' = Settled(mutations, "DeleteMovie", o)
    /\ event' = Received("DeleteMovie", TRUE, o, "none")
    /\ UNCHANGED <<view, selectedMovie, formData, selectedPerson, relationType>>

\* deleteMovieMutation.onError
DeleteOnError(o) ==
    /\ mutations["DeleteMovie"][o] > 0
    /\ mutations' = Settled(mutations, "DeleteMovie", o)
    /\ event' = Received("DeleteMovie", FALSE, o, "Failed to delete movie")
    /\ UNCHANGED <<view, selectedMovie, formData, selectedPerson,
                   relationType, queryCache>>

(***************************************************************************)
(* RelationshipManager                                                     *)
(***************************************************************************)
ManagerMounted == view = "manage" /\ selectedMovie # NoMovie

RelationOps == {"AssignActor", "RemoveActor", "AssignDirector", "RemoveDirector"}

\* the movie's loaded list for a role
Assigned(movie, type) ==
    IF type = "actor" THEN movie.peopleActedIn ELSE movie.peopleDirected

\* isLoading of the people query
peopleLoading ==
    /\ queryCache["people"].fetchStatus = "fetching"
    /\ queryCache["people"].status = "pending"

\* the people offered by the person dropdown
availablePeople ==
    IF queryCache["people"].data = NoData THEN {}
    ELSE {p \in queryCache["people"].data[1] :
            p \notin Assigned(selectedMovie, relationType)}

\* a role dropdown that leaves the selected person as it is
ChangeRelationTypeKeepingPerson(type) ==
    /\ ManagerMounted
    /\ type # relationType
    /\ relationType' = type
    /\ event' = Quiet
    /\ UNCHANGED <<view, selectedMovie, formData, selectedPerson, queryCache,
                   mutations>>

\* onChange of the role dropdown
ChangeRelationType(type) ==
    /\ ManagerMounted
    /\ type # relationType
    /\ relationType' = type
    /\ selectedPerson' = ""
    /\ event' = Quiet
    /\ UNCHANGED <<view, selectedMovie, formData, queryCache, mutations>>

\* onChange of the person dropdown
ChangePerson(person) ==
    /\ ManagerMounted
    /\ ~peopleLoading
    /\ person \in {""} \cup availablePeople
    /\ person # selectedPerson
    /\ selectedPerson' = person
    /\ event' = Quiet
    /\ UNCHANGED <<view, selectedMovie, formData, relationType, queryCache,
                   mutations>>

\* disabled of the Add button
AddDisabled ==
    \/ selectedPerson = ""
    \/ IsPending("AssignActor")
    \/ IsPending("AssignDirector")

AssignOp(type) == IF type = "actor" THEN "AssignActor" ELSE "AssignDirector"

RemoveOp(type) == IF type = "actor" THEN "RemoveActor" ELSE "RemoveDirector"

\* the variables of the four relationship mutations
RelationVars(movie, person, type) ==
    IF type = "actor"
    THEN [movieTitle |-> movie.title, actorName |-> person]
    ELSE [movieTitle |-> movie.title, directorName |-> person]

\* handleAssign without the look at the movie's loaded lists
handleAssignUnchecked ==
    IF selectedPerson = ""
    THEN /\ event' = Shown("Please select a person")
         /\ UNCHANGED mutations
    ELSE /\ InFlight(mutations) < MaxInFlight
         /\ mutations' = Mutate(mutations, AssignOp(relationType))
         /\ event' = Sent(AssignOp(relationType),
                          RelationVars(selectedMovie, selectedPerson, relationType))

\* the body of handleAssign
handleAssign ==
    IF selectedPerson = ""
    THEN /\ event' = Shown("Please select a person")
         /\ UNCHANGED mutations
    ELSE IF relationType = "actor" /\ selectedPerson \in selectedMovie.peopleActedIn
    THEN /\ event' = Shown("This person is already an actor in this movie")
         /\ UNCHANGED mutations
    ELSE IF relationType = "director" /\ selectedPerson \in selectedMovie.peopleDirected
    THEN /\ event' = Shown("This person is already a director of this movie")
         /\ UNCHANGED mutations
    ELSE /\ InFlight(mutations) < MaxInFlight
         /\ mutations' = Mutate(mutations, AssignOp(relationType))
         /\ event' = Sent(AssignOp(relationType),
                          RelationVars(selectedMovie, selectedPerson, relationType))

\* the user presses the Add button
Add ==
    /\ ManagerMounted
    /\ IF AddDisabled
       THEN /\ event' = Quiet
            /\ UNCHANGED mutations
       ELSE handleAssign
    /\ UNCHANGED <<view, selectedMovie, formData, selectedPerson,
                   relationType, queryCache>>

\* disabled of the Remove buttons of a role's list
RemoveDisabled(type) == IsPending(RemoveOp(type))

\* a handleRemove that calls mutate whatever window.confirm returned
handleRemoveUnasked(personName, type, confirmed) ==
    /\ ManagerMounted
    /\ personName \in Assigned(selectedMovie, type)
    /\ ~RemoveDisabled(type)
    /\ InFlight(mutations) < MaxInFlight
    /\ mutations' = Mutate(mutations, RemoveOp(type))
    /\ event' = [Sent(RemoveOp(type), RelationVars(selectedMovie, personName, type))
                    EXCEPT !.confirmed = IF confirmed THEN "yes" ELSE "no"]
    /\ UNCHANGED <<view, selectedMovie, formData, selectedPerson,
                   relationType, queryCache>>

\* Remove button of a person in the list of a role
handleRemove(personName, type, confirmed) ==
    /\ ManagerMounted
    /\ personName \in Assigned(selectedMovie, type)
    /\ ~RemoveDisabled(type)
    /\ IF confirmed
       THEN /\ InFlight(mutations) < MaxInFlight
            /\ mutations' = Mutate(mutations, RemoveOp(type))
            /\ event' = SentConfirmed(RemoveOp(type),
                                      RelationVars(selectedMovie, personName, type))
       ELSE /\ UNCHANGED mutations
            /\ event' = Declined
    /\ UNCHANGED <<view, selectedMovie, formData, selectedPerson,
                   relationType, queryCache>>

\* onSuccess of assignActorMutation and assignDirectorMutation
AssignOnSuccess(op, o) ==
    /\ op \in {"AssignActor", "AssignDirector"}
    /\ mutations[op][o] > 0
    /\ handleComplete(InvalidateQueries(queryCache, "movies", view, selectedMovie),
                      Settled(mutations, op, o))
    /\ event' = Received(op, TRUE, o, "none")

\* onSuccess of removeActorMutation and removeDirectorMutation
RemoveOnSuccess(op, o) ==
    /\ op \in {"RemoveActor", "RemoveDirector"}
    /\ mutations[op][o] > 0
    /\ handleComplete(InvalidateQueries(queryCache, "movies", view, selectedMovie),
                      Settled(mutations, op, o))
    /\ event' = Received(op, TRUE, o, "none")

\* a relationship mutation is rejected: the four hooks have no onError
RelationOnError(op, o) ==
    /\ op \in RelationOps
    /\ mutations[op][o] > 0
    /\ mutations' = Settled(mutations, op, o)
    /\ event' = Received(op, FALSE, o, "none")
    /\ UNCHANGED <<view, selectedMovie, formData, selectedPerson,
                   relationType, queryCache>>

(***************************************************************************)
(* How sync moves with a step of the application.                          *)
(***************************************************************************)
\* the step is the success callback of a mutation
MutationSucceeds == event'.response.op \in MutationOps /\ event'.response.ok

\* the step sends a GetMovies request: the entry starts fetching, its fetch
\* is cancelled and started again by invalidateQueries, or it is retried
MoviesCallStarts ==
    LET q == queryCache["movies"] IN
    /\ queryCache'["movies"].fetchStatus = "fetching"
    /\ \/ q.fetchStatus = "idle"
       \/ queryCache'["movies"].fetchFailureCount > q.fetchFailureCount
       \/ /\ MutationSucceeds
          /\ "movies" \in ActiveKeys(view, selectedMovie)
          /\ q.data # NoData

\* the step stores the response to a GetMovies request
MoviesStored ==
    /\ queryCache["movies"].fetchStatus = "fetching"
    /\ queryCache'["movies"].fetchStatus = "idle"
    /\ queryCache'["movies"].status = "success"

\* the step hands a movie of the list to the form or to the manager
MovieSelected == view = "list" /\ view' \in {"edit", "manage"}

\* sync after a step of the application
ServerSync ==
    IF ~sync.tracked THEN sync' = sync
    ELSE
      LET fetch == IF queryCache'["movies"].fetchStatus # "fetching" THEN TRUE
                   ELSE IF MoviesCallStarts THEN TRUE
                   ELSE IF MutationSucceeds THEN FALSE
                   ELSE sync.fetch
          selected == IF selectedMovie' = NoMovie THEN TRUE
                      ELSE IF MutationSucceeds THEN FALSE
                      ELSE IF MovieSelected THEN sync.cache
                      ELSE sync.selected
          \* a call sent before a write may be answered from before or after it
          cache == IF queryCache'["movies"].data = NoData THEN {TRUE}
                   ELSE IF MoviesStored
                        THEN (IF sync.fetch THEN {TRUE} ELSE BOOLEAN)
                   ELSE IF MutationSucceeds THEN {FALSE}
                   ELSE {sync.cache}
      IN \E c \in cache :
            sync' = [tracked |-> TRUE, fetch |-> fetch, cache |-> c,
                     selected |-> selected]

(***************************************************************************)
(* The specifications.                                                     *)
(***************************************************************************)
\* the fetches of the two reads
Reads ==
    \E k \in {"movies", "people"} :
        \/ \E d \in Responses(k) : FetchSuccess(k, d)
        \/ FetchRetry(k)
        \/ FetchError(k)

\* the run stays in its snapshot
InChapter(c) ==
    /\ chapter = c
    /\ chapter' = c
    /\ UNCHANGED <<searchTerm, activeSearch, searchCache, server>>

\* chapter 5: the list with its Delete buttons, and the movie form
NextChapter5 ==
    \/ InChapter("chapter5") /\ NavMovies /\ ServerSync
    \/ InChapter("chapter5") /\ NavAddMovie /\ ServerSync
    \/ InChapter("chapter5") /\ \E m \in Movies : handleEdit(m) /\ ServerSync
    \/ InChapter("chapter5") /\ Cancel /\ ServerSync
    \/ InChapter("chapter5") /\ \E v \in TitleInputs : handleChangeTitle(v) /\ ServerSync
    \/ InChapter("chapter5") /\ \E v \in ReleasedInputs : handleChangeReleased(v) /\ ServerSync
    \/ InChapter("chapter5") /\ \E v \in TaglineInputs : handleChangeTagline(v) /\ ServerSync
    \/ InChapter("chapter5") /\ Submit /\ ServerSync
    \/ InChapter("chapter5") /\ \E o \in Observers : CreateOnSuccess(o) /\ ServerSync
    \/ InChapter("chapter5") /\ \E o \in Observers : CreateOnError(o) /\ ServerSync
    \/ InChapter("chapter5") /\ \E o \in Observers : UpdateOnSuccess(o) /\ ServerSync
    \/ InChapter("chapter5") /\ \E o \in Observers : UpdateOnError(o) /\ ServerSync
    \/ InChapter("chapter5") /\ \E m \in Movies, c \in BOOLEAN : handleDelete(m, c) /\ ServerSync
    \/ InChapter("chapter5") /\ \E o \in Observers : DeleteOnSuccess(o) /\ ServerSync
    \/ InChapter("chapter5") /\ \E o \in Observers : DeleteOnError(o) /\ ServerSync
    \/ InChapter("chapter5") /\ Reads /\ ServerSync

\* chapter 7: the list and the relationship manager
NextChapter7 ==
    \/ InChapter("chapter7") /\ NavMovies /\ ServerSync
    \/ InChapter("chapter7") /\ \E m \in Movies : handleManage(m) /\ ServerSync
    \/ InChapter("chapter7") /\ Cancel /\ ServerSync
    \/ InChapter("chapter7") /\ \E t \in {"actor", "director"} : ChangeRelationType(t) /\ ServerSync
    \/ InChapter("chapter7") /\ \E p \in {""} \cup People : ChangePerson(p) /\ ServerSync
    \/ InChapter("chapter7") /\ Add /\ ServerSync
    \/ InChapter("chapter7") /\ \E p \in People, t \in {"actor", "director"}, c \in BOOLEAN :
          handleRemove(p, t, c) /\ ServerSync
    \/ InChapter("chapter7") /\ \E op \in RelationOps, o \in Observers : AssignOnSuccess(op, o) /\ ServerSync
    \/ InChapter("chapter7") /\ \E op \in RelationOps, o \in Observers : RemoveOnSuccess(op, o) /\ ServerSync
    \/ InChapter("chapter7") /\ \E op \in RelationOps, o \in Observers : RelationOnError(op, o) /\ ServerSync
    \/ InChapter("chapter7") /\ Reads /\ ServerSync

Next == NextChapter5 \/ NextChapter7

Spec == Init /\ [][Next]_vars

\* the run of one snapshot
InitChapter5 == Init /\ chapter = "chapter5"

SpecChapter5 == InitChapter5 /\ [][NextChapter5]_vars

InitChapter7 == Init /\ chapter = "chapter7"

SpecChapter7 == InitChapter7 /\ [][NextChapter7]_vars

\* the same run with the writes of the server followed
InitSync ==
    /\ chapter \in {"chapter5", "chapter7"}
    /\ view = "list"
    /\ selectedMovie = NoMovie
    /\ formData = InitialFormData
    /\ selectedPerson = ""
    /\ relationType = "actor"
    /\ queryCache = [k \in {"movies", "people"} |->
                        IF k = "movies" THEN StartFetch(NewQuery) ELSE NewQuery]
    /\ mutations = NoMutations
    /\ event = Quiet
    /\ SearchMounted(<<>> :> NewQuery)
    /\ sync = InSync
    /\ server = NoServer

InitSyncChapter5 == InitSync /\ chapter = "chapter5"

SpecSyncChapter5 == InitSyncChapter5 /\ [][NextChapter5]_vars

InitSyncChapter7 == InitSync /\ chapter = "chapter7"

SpecSyncChapter7 == InitSyncChapter7 /\ [][NextChapter7]_vars

(***************************************************************************)
(* The same runs with every request of a mutation answered: the promise of *)
(* graphqlClient.request resolves or rejects, and the callback of the hook *)
(* runs, for each hook and each link to its observer.                      *)
(***************************************************************************)
FormOps == {"CreateMovie", "UpdateMovie"}

\* the response to a mutation of hook op with link o arrives
Delivery(op, o) ==
    /\ chapter' = chapter
    /\ UNCHANGED <<searchTerm, activeSearch, searchCache, server>>
    /\ \/ op = "CreateMovie" /\ (CreateOnSuccess(o) \/ CreateOnError(o))
       \/ op = "UpdateMovie" /\ (UpdateOnSuccess(o) \/ UpdateOnError(o))
       \/ op = "DeleteMovie" /\ (DeleteOnSuccess(o) \/ DeleteOnError(o))
       \/ AssignOnSuccess(op, o)
       \/ RemoveOnSuccess(op, o)
       \/ RelationOnError(op, o)
    /\ ServerSync

FairDelivery == \A op \in MutationOps, o \in Observers : WF_vars(Delivery(op, o))

\* the list, loaded, with its Delete buttons and the movie form, or with the
\* manager and its Remove buttons; the list is not read again
NextSettle ==
    \/ InChapter("chapter5") /\ NavAddMovie /\ ServerSync
    \/ InChapter("chapter5") /\ \E m \in Movies : handleEdit(m) /\ ServerSync
    \/ InChapter("chapter5") /\ Cancel /\ ServerSync
    \/ InChapter("chapter5") /\ \E v \in TypedTitles : handleChangeTitle(v) /\ ServerSync
    \/ InChapter("chapter5") /\ Submit /\ ServerSync
    \/ InChapter("chapter5") /\ \E m \in Movies : handleDelete(m, TRUE) /\ ServerSync
    \/ InChapter("chapter7") /\ \E m \in Movies : handleManage(m) /\ ServerSync
    \/ InChapter("chapter7") /\ Cancel /\ ServerSync
    \/ InChapter("chapter7") /\ \E p \in People, t \in {"actor", "director"} :
          handleRemove(p, t, TRUE) /\ ServerSync
    \/ \E op \in MutationOps, o \in Observers : Delivery(op, o)

InitSettle ==
    /\ chapter \in {"chapter5", "chapter7"}
    /\ view = "list"
    /\ selectedMovie = NoMovie
    /\ formData = InitialFormData
    /\ selectedPerson = ""
    /\ relationType = "actor"
    /\ \E l \in MovieLists :
         queryCache = [k \in {"movies", "people"} |->
            IF k = "movies"
            THEN [status |-> "success", data |-> <<l>>, isInvalidated |-> FALSE,
                  fetchStatus |-> "idle", fetchFailureCount |-> 0]
            ELSE NewQuery]
    /\ mutations = NoMutations
    /\ event = Quiet
    /\ SearchMounted(<<>> :> NewQuery)
    /\ sync = NoSync
    /\ server = NoServer

FairSpecSettle == InitSettle /\ [][NextSettle]_vars /\ FairDelivery

(***************************************************************************)
(* Search: the search box above the list, and the reads of the keys        *)
(* ['search', term].  The run follows the list with its search box and the *)
(* Add Movie view, which unmounts both.                                    *)
(***************************************************************************)
\* what the user can type in the search box
SearchInputs == {<<>>, <<" ">>, <<"a">>, <<"a", " ">>}

SearchShown == view = "list"

\* enabled: activeSearch.length > 0
SearchEnabled(term) == Len(term) > 0

\* the observer of Search turns to the key ['search', term]: the entry is made
\* if there is none, and fetched if the query is enabled, stale and idle
ObserveSearch(cache, term) ==
    LET made == IF term \in DOMAIN cache THEN cache ELSE cache @@ (term :> NewQuery)
    IN  IF SearchEnabled(term) /\ IsStale(made[term])
           /\ made[term].fetchStatus = "idle"
        THEN [made EXCEPT ![term] = StartFetch(made[term])]
        ELSE made

\* the entry of ['search', term]; NewQuery while the cache has none
SearchEntry(cache, term) == IF term \in DOMAIN cache THEN cache[term] ELSE NewQuery

\* onChange of the search box: setSearchTerm(e.target.value)
handleChangeSearch(value) ==
    /\ SearchShown
    /\ value # searchTerm
    /\ searchTerm' = value
    /\ event' = Quiet
    /\ UNCHANGED <<view, selectedMovie, formData, selectedPerson, relationType,
                   queryCache, mutations, activeSearch, searchCache>>

\* a handleSearch that tests searchTerm without trim()
handleSearchUntrimmed ==
    /\ SearchShown
    /\ IF searchTerm # <<>>
       THEN /\ activeSearch' = searchTerm
            /\ searchCache' = IF searchTerm = activeSearch THEN searchCache
                              ELSE ObserveSearch(searchCache, searchTerm)
       ELSE UNCHANGED <<activeSearch, searchCache>>
    /\ event' = Quiet
    /\ UNCHANGED <<view, selectedMovie, formData, selectedPerson, relationType,
                   queryCache, mutations, searchTerm>>

\* onSubmit of the search form: if (searchTerm.trim()) setActiveSearch(searchTerm)
handleSearch ==
    /\ SearchShown
    /\ IF Trim(searchTerm) # <<>>
       THEN /\ activeSearch' = searchTerm
            /\ searchCache' = IF searchTerm = activeSearch THEN searchCache
                              ELSE ObserveSearch(searchCache, searchTerm)
       ELSE UNCHANGED <<activeSearch, searchCache>>
    /\ event' = Quiet
    /\ UNCHANGED <<view, selectedMovie, formData, selectedPerson, relationType,
                   queryCache, mutations, searchTerm>>

\* whether Search is mounted on the key ['search', term]
SearchObserved(term) == SearchShown /\ activeSearch = term

\* graphqlClient.request(SEARCH_ALL, ...) resolves
SearchFetchSuccess(term, data) ==
    /\ term \in DOMAIN searchCache
    /\ searchCache[term].fetchStatus = "fetching"
    /\ searchCache' = [searchCache EXCEPT ![term] =
            [status |-> "success", data |-> <<data>>, isInvalidated |-> FALSE,
             fetchStatus |-> "idle", fetchFailureCount |-> 0]]
    /\ event' = Quiet
    /\ UNCHANGED <<view, selectedMovie, formData, selectedPerson, relationType,
                   queryCache, mutations, searchTerm, activeSearch>>

\* the request rejects and the query is tried again (retry: 1), unless Search
\* has turned to another key or has unmounted
SearchFetchRetry(term) ==
    /\ term \in DOMAIN searchCache
    /\ searchCache[term].fetchStatus = "fetching"
    /\ SearchObserved(term)
    /\ searchCache[term].fetchFailureCount < Retry
    /\ searchCache' = [searchCache EXCEPT ![term].fetchFailureCount = @ + 1]
    /\ event' = Quiet
    /\ UNCHANGED <<view, selectedMovie, formData, selectedPerson, relationType,
                   queryCache, mutations, searchTerm, activeSearch>>

\* the request rejects and no retry is left: Search reads only data and
\* isLoading, and shows nothing
SearchFetchError(term) ==
    /\ term \in DOMAIN searchCache
    /\ searchCache[term].fetchStatus = "fetching"
    /\ searchCache[term].fetchFailureCount >= Retry \/ ~SearchObserved(term)
    /\ searchCache' = [searchCache EXCEPT ![term].status = "error",
                                           ![term].fetchStatus = "idle",
                                           ![term].fetchFailureCount = @ + 1]
    /\ event' = Received("SearchAll", FALSE,
                         IF SearchObserved(term) THEN "current" ELSE "orphan", "none")
    /\ UNCHANGED <<view, selectedMovie, formData, selectedPerson, relationType,
                   queryCache, mutations, searchTerm, activeSearch>>

\* a nav button: the list and Search unmount, or mount again with their
\* initial state
SearchNav(v) ==
    /\ Render(v, NoMovie, queryCache, mutations)
    /\ event' = Quiet
    /\ IF v = view
       THEN UNCHANGED <<searchTerm, activeSearch, searchCache>>
       ELSE /\ searchTerm' = <<>>
            /\ activeSearch' = <<>>
            /\ UNCHANGED searchCache

InSearch == chapter = "search" /\ chapter' = chapter /\ UNCHANGED <<sync, server>>

\* chapter 7: the list with its search box
NextSearch ==
    \/ InSearch /\ \E v \in {"list", "create"} : SearchNav(v)
    \/ InSearch /\ \E value \in SearchInputs : handleChangeSearch(value)
    \/ InSearch /\ handleSearch
    \/ InSearch /\ \E t \in SearchInputs, d \in MovieLists : SearchFetchSuccess(t, d)
    \/ InSearch /\ \E t \in SearchInputs : SearchFetchRetry(t)
    \/ InSearch /\ \E t \in SearchInputs : SearchFetchError(t)

InitSearch ==
    /\ chapter = "search"
    /\ view = "list"
    /\ selectedMovie = NoMovie
    /\ formData = InitialFormData
    /\ selectedPerson = ""
    /\ relationType = "actor"
    /\ queryCache = [k \in {"movies", "people"} |->
                        IF k = "movies" THEN StartFetch(NewQuery) ELSE NewQuery]
    /\ mutations = NoMutations
    /\ event = Quiet
    /\ SearchMounted(<<>> :> NewQuery)
    /\ sync = NoSync
    /\ server = NoServer

SpecSearch == InitSearch /\ [][NextSearch]_vars

\* handleAssign on every selection: the manager is mounted on a movie of the
\* list with the people loaded, and selectedPerson and relationType hold any
\* value of their types
InitHandleAssign ==
    /\ chapter = "chapter7"
    /\ view = "manage"
    /\ selectedMovie \in Movies
    /\ formData = InitialFormData
    /\ selectedPerson \in {""} \cup People
    /\ relationType \in {"actor", "director"}
    /\ queryCache = [k \in {"movies", "people"} |->
            [status |-> "success",
             data |-> IF k = "movies" THEN <<{selectedMovie}>> ELSE <<People>>,
             isInvalidated |-> FALSE, fetchStatus |-> "idle",
             fetchFailureCount |-> 0]]
    /\ mutations = NoMutations
    /\ event = Quiet
    /\ SearchMounted(<<>> :> NewQuery)
    /\ sync = NoSync
    /\ server = NoServer

SpecHandleAssign == InitHandleAssign /\ [][NextChapter7]_vars

\* the reads of the three kinds of key: the list and the manager of chapter 7
\* with no relationship added or removed, or the list with its search box
InitReads ==
    /\ chapter \in {"reads", "search"}
    /\ view = "list"
    /\ selectedMovie = NoMovie
    /\ formData = InitialFormData
    /\ selectedPerson = ""
    /\ relationType = "actor"
    /\ queryCache = [k \in {"movies", "people"} |->
                        IF k = "movies" THEN StartFetch(NewQuery) ELSE NewQuery]
    /\ mutations = NoMutations
    /\ event = Quiet
    /\ SearchMounted(<<>> :> NewQuery)
    /\ sync = NoSync
    /\ server = NoServer

NextReads ==
    \/ InChapter("reads") /\ NavMovies /\ ServerSync
    \/ InChapter("reads") /\ \E m \in Movies : handleManage(m) /\ ServerSync
    \/ InChapter("reads") /\ Cancel /\ ServerSync
    \/ InChapter("reads") /\ Reads /\ ServerSync
    \/ NextSearch

SpecReads == InitReads /\ [][NextReads]_vars

(***************************************************************************)
(* The service on its own: the resolvers that the GraphQL documents of     *)
(* the movie operations call, each step one request answered.              *)
(***************************************************************************)
\* a request answered without error
Served(op, variables) ==
    [alert |-> "none", request |-> Request(op, variables),
     response |-> Response(op, TRUE, "current"), confirmed |-> "none"]

InServer ==
    /\ chapter \in {"server", "assign"}
    /\ chapter' = chapter
    /\ UNCHANGED <<view, selectedMovie, formData, selectedPerson, relationType,
                   queryCache, mutations, searchTerm, activeSearch, searchCache,
                   sync>>

\* the nodes of a bag that carry a title
WithTitle(movies, title) == {n \in BagToSet(movies) : n.title = title}

\* the nodes of a bag that carry a title, with their multiplicities
Carrying(movies, title) == [n \in WithTitle(movies, title) |-> movies[n]]

\* how many movies of a bag carry a title
TitleCount(movies, title) ==
    BagCardinality([n \in WithTitle(movies, title) |-> movies[n]])

\* CREATE_MOVIE: createMovies(input: [{ title, released, tagline }]) adds a
\* node and answers with it
CreateMovie(input) ==
    /\ BagCardinality(server.movies) < MaxNodes
    /\ server' = [movies |-> server.movies (+) SetToBag({input}),
                  response |-> <<SetToBag({input})>>]
    /\ event' = Served("CreateMovie", input)

\* the nodes of a bag, each node n of a title changed to f[n]
OnTitle(movies, title, f) ==
    LET after(n) == IF n.title = title THEN f[n] ELSE n IN
    [r \in {after(n) : n \in BagToSet(movies)} |->
        BagCardinality([n \in {m \in BagToSet(movies) : after(m) = r} |-> movies[n]])]

\* a node after update: { tagline: { set }, released: { set } }
Updated(n, variables) ==
    [n EXCEPT !.released = variables.released, !.tagline = variables.tagline]

\* the update reaches one of the nodes that carry the title
UpdateOneNode(variables) ==
    /\ \E n \in WithTitle(server.movies, variables.title) :
            server' = [movies |-> (server.movies (-) SetToBag({n}))
                                    (+) SetToBag({Updated(n, variables)}),
                      response |-> <<SetToBag({Updated(n, variables)})>>]
    /\ event' = Served("UpdateMovie", variables)

\* UPDATE_MOVIE: updateMovies(where: { title: { eq: $title } } update: ...)
\* sets released and tagline of every node that carries the title, and
\* answers with the nodes it has updated
UpdateMovie(variables) ==
    /\ LET set == [n \in WithTitle(server.movies, variables.title) |->
                        Updated(n, variables)]
       IN server' = [movies |-> OnTitle(server.movies, variables.title, set),
                     response |-> <<OnTitle(Carrying(server.movies, variables.title),
                                           variables.title, set)>>]
    /\ event' = Served("UpdateMovie", variables)

\* the deletion reports one node whatever it has removed
DeleteReportsOne(title) ==
    /\ server' = [movies |-> [n \in BagToSet(server.movies)
                                    \ WithTitle(server.movies, title)
                                |-> server.movies[n]],
                  response |-> <<[nodesDeleted |-> 1]>>]
    /\ event' = Served("DeleteMovie", [title |-> title])

\* DELETE_MOVIE: deleteMovies(where: { title: { eq: $title } }) removes every
\* node that carries the title and answers with their number
DeleteMovie(title) ==
    /\ server' = [movies |-> [n \in BagToSet(server.movies)
                                    \ WithTitle(server.movies, title)
                                |-> server.movies[n]],
                  response |-> <<[nodesDeleted |-> TitleCount(server.movies, title)]>>]
    /\ event' = Served("DeleteMovie", [title |-> title])

\* GET_MOVIES: movies { ... } answers with every node
GetMovies ==
    /\ server' = [server EXCEPT !.response = <<server.movies>>]
    /\ event' = Served("GetMovies", <<>>)

\* the terms of a search, in either case of the letter of a title
SearchTerms == {<<"a">>, <<"A">>}

\* the characters of a tagline
Characters(tagline) == IF tagline = "tag" THEN <<"t", "a", "g">> ELSE <<"n", "e", "w">>

\* { contains: $searchTerm }: the term occurs in the string, character by
\* character
Contains(string, term) ==
    \E i \in 0..(Len(string) - Len(term)) :
        SubSeq(string, i + 1, i + Len(term)) = term

\* released as the Int it is
Year(released) == IF released = "1999" THEN 1999 ELSE 2016

\* SEARCH_ALL: movies(where: { OR: [{ title: { contains } }, { tagline:
\* { contains } }] } sort: { released: ASC }) answers with the nodes that
\* match, in the order of released
SearchAll(term) ==
    LET found == [n \in {m \in BagToSet(server.movies) :
                            \/ Contains(m.title, term)
                            \/ Contains(Characters(m.tagline), term)}
                    |-> server.movies[n]]
        k == BagCardinality(found)
    IN \E list \in [1..k -> BagToSet(found)] :
        /\ \A n \in BagToSet(found) : Cardinality({i \in 1..k : list[i] = n}) = found[n]
        /\ \A i \in 1..(k - 1) : Year(list[i].released) <= Year(list[i + 1].released)
        /\ server' = [server EXCEPT !.response = <<list>>]
        /\ event' = Served("SearchAll", [searchTerm |-> term])

NextServer ==
    \/ InServer /\ \E input \in ServerMovies : CreateMovie(input)
    \/ InServer /\ \E variables \in ServerMovies : UpdateMovie(variables)
    \/ InServer /\ \E t \in Titles \cup TypedTitles : DeleteMovie(t)
    \/ InServer /\ GetMovies
    \/ InServer /\ \E term \in SearchTerms : SearchAll(term)

\* the graph holds no movie, or one movie of the data set
InitServer ==
    /\ chapter = "server"
    /\ view = "list"
    /\ selectedMovie = NoMovie
    /\ formData = InitialFormData
    /\ selectedPerson = ""
    /\ relationType = "actor"
    /\ queryCache = [k \in {"movies", "people"} |->
                        IF k = "movies" THEN StartFetch(NewQuery) ELSE NewQuery]
    /\ mutations = NoMutations
    /\ event = Quiet
    /\ SearchMounted(<<>> :> NewQuery)
    /\ sync = NoSync
    /\ \E held \in SUBSET {n \in ServerMovies : n.title \in Titles} :
            /\ Cardinality(held) <= 1
            /\ server = [movies |-> SetToBag(held), response |-> NoData]

SpecServer == InitServer /\ [][NextServer]_vars

(***************************************************************************)
(* A movie of the search results opened in the manager.  The run follows   *)
(* the search box with one term, the Manage Relationships button of a      *)
(* result and the removals of the manager; sync follows the entry of the   *)
(* term as it follows the ['movies'] entry in the other runs.              *)
(***************************************************************************)
SelectTerm == <<"a">>

\* data?.movies of the Search component
SearchResults ==
    IF SearchShown /\ SearchEntry(searchCache, activeSearch).data # NoData
    THEN SearchEntry(searchCache, activeSearch).data[1] ELSE {}

\* Manage Relationships button of a search result: onSelectMovie(movie) is
\* handleSelectFromSearch, and Search unmounts with the list
handleSelectFromSearch(movie) ==
    /\ movie \in SearchResults
    /\ Render("manage", movie, queryCache, mutations)
    /\ event' = Quiet
    /\ searchTerm' = <<>>
    /\ activeSearch' = <<>>
    /\ UNCHANGED searchCache

\* sync after a step, for the entry ['search', SelectTerm]
SearchSync ==
    LET q == SearchEntry(searchCache, SelectTerm)
        q2 == SearchEntry(searchCache', SelectTerm)
        callStarts == /\ q2.fetchStatus = "fetching"
                      /\ \/ q.fetchStatus = "idle"
                         \/ q2.fetchFailureCount > q.fetchFailureCount
        stored == /\ q.fetchStatus = "fetching"
                  /\ q2.fetchStatus = "idle"
                  /\ q2.status = "success"
        fetch == IF q2.fetchStatus # "fetching" THEN TRUE
                 ELSE IF callStarts THEN TRUE
                 ELSE IF MutationSucceeds THEN FALSE
                 ELSE sync.fetch
        selected == IF selectedMovie' = NoMovie THEN TRUE
                    ELSE IF MutationSucceeds THEN FALSE
                    ELSE IF MovieSelected THEN sync.cache
                    ELSE sync.selected
        \* a call sent before a write may be answered from before or after it
        cache == IF q2.data = NoData THEN {TRUE}
                 ELSE IF stored THEN (IF sync.fetch THEN {TRUE} ELSE BOOLEAN)
                 ELSE IF MutationSucceeds THEN {FALSE}
                 ELSE {sync.cache}
    IN \E c \in cache :
          sync' = [tracked |-> TRUE, fetch |-> fetch, cache |-> c,
                   selected |-> selected]

InSelect == chapter = "select" /\ chapter' = chapter /\ UNCHANGED server

NextSelect ==
    \/ InSelect /\ handleChangeSearch(SelectTerm) /\ SearchSync
    \/ InSelect /\ handleSearch /\ SearchSync
    \/ InSelect /\ \E d \in MovieLists : SearchFetchSuccess(SelectTerm, d) /\ SearchSync
    \/ InSelect /\ SearchFetchRetry(SelectTerm) /\ SearchSync
    \/ InSelect /\ SearchFetchError(SelectTerm) /\ SearchSync
    \/ InSelect /\ \E m \in Movies : handleSelectFromSearch(m) /\ SearchSync
    \/ InChapter("select") /\ Cancel /\ SearchSync
    \/ InChapter("select") /\ \E p \in People, t \in {"actor", "director"}, c \in BOOLEAN :
          handleRemove(p, t, c) /\ SearchSync
    \/ InChapter("select") /\ \E op \in RelationOps, o \in Observers : RemoveOnSuccess(op, o) /\ SearchSync
    \/ InChapter("select") /\ \E op \in RelationOps, o \in Observers : RelationOnError(op, o) /\ SearchSync

InitSelect ==
    /\ chapter = "select"
    /\ view = "list"
    /\ selectedMovie = NoMovie
    /\ formData = InitialFormData
    /\ selectedPerson = ""
    /\ relationType = "actor"
    /\ queryCache = [k \in {"movies", "people"} |->
                        IF k = "movies" THEN StartFetch(NewQuery) ELSE NewQuery]
    /\ mutations = NoMutations
    /\ event = Quiet
    /\ SearchMounted(<<>> :> NewQuery)
    /\ sync = InSync
    /\ server = NoServer

SpecSelect == InitSelect /\ [][NextSelect]_vars

(***************************************************************************)
(* The relationships of the service and the manager's Add side by side.    *)
(* Here a Movie node carries its ACTED_IN and DIRECTED relationships, a bag *)
(* of the names at their other end, and the run holds one node per title.  *)
(***************************************************************************)
\* a movie as the client holds it, as a node of the graph
AsNode(movie) ==
    [title |-> movie.title, released |-> movie.released, tagline |-> movie.tagline,
     peopleActedIn |-> SetToBag(movie.peopleActedIn),
     peopleDirected |-> SetToBag(movie.peopleDirected)]

\* how many relationships a bag of names holds to one person
Edges(names, person) == IF person \in BagToSet(names) THEN names[person] ELSE 0

\* a connect that adds a relationship to the ones that exist
ConnectAnother(names, person) ==
    IF Edges(names, person) < 2 THEN names (+) SetToBag({person}) ELSE names

\* connect: { where: { node: { name: { eq } } } } creates the relationship
\* unless it exists
Connect(names, person) ==
    IF Edges(names, person) > 0 THEN names ELSE names (+) SetToBag({person})

\* disconnect: removes the relationships to the person
Disconnect(names, person) == [n \in BagToSet(names) \ {person} |-> names[n]]

\* ASSIGN_ACTOR and ASSIGN_DIRECTOR: updateMovies(where: title, update:
\* { peopleActedIn | peopleDirected: { connect } })
AssignRelation(op, variables) ==
    /\ op \in {"AssignActor", "AssignDirector"}
    /\ variables \in {RelationVars(m, p, IF op = "AssignActor" THEN "actor" ELSE "director") :
                        m \in Movies, p \in People}
    /\ LET connected == [n \in WithTitle(server.movies, variables.movieTitle) |->
            IF op = "AssignActor"
            THEN [n EXCEPT !.peopleActedIn = Connect(@, variables.actorName)]
            ELSE [n EXCEPT !.peopleDirected = Connect(@, variables.directorName)]]
       IN server' = [movies |-> OnTitle(server.movies, variables.movieTitle, connected),
                     response |-> <<OnTitle(Carrying(server.movies, variables.movieTitle),
                                           variables.movieTitle, connected)>>]
    /\ event' = Served(op, variables)

\* REMOVE_ACTOR and REMOVE_DIRECTOR: the same with disconnect
RemoveRelation(op, variables) ==
    /\ op \in {"RemoveActor", "RemoveDirector"}
    /\ variables \in {RelationVars(m, p, IF op = "RemoveActor" THEN "actor" ELSE "director") :
                        m \in Movies, p \in People}
    /\ LET disconnected == [n \in WithTitle(server.movies, variables.movieTitle) |->
            IF op = "RemoveActor"
            THEN [n EXCEPT !.peopleActedIn = Disconnect(@, variables.actorName)]
            ELSE [n EXCEPT !.peopleDirected = Disconnect(@, variables.directorName)]]
       IN server' = [movies |-> OnTitle(server.movies, variables.movieTitle, disconnected),
                     response |-> <<OnTitle(Carrying(server.movies, variables.movieTitle),
                                           variables.movieTitle, disconnected)>>]
    /\ event' = Served(op, variables)

\* the variables of a relationship request, whatever the role
RelationRequests ==
    {RelationVars(m, p, t) : m \in Movies, p \in People, t \in {"actor", "director"}}

NextAssign ==
    \/ InChapter("assign") /\ \E t \in {"actor", "director"} : ChangeRelationType(t) /\ ServerSync
    \/ InChapter("assign") /\ \E p \in {""} \cup People : ChangePerson(p) /\ ServerSync
    \/ InChapter("assign") /\ Add /\ ServerSync
    \/ InChapter("assign") /\ \E op \in RelationOps, o \in Observers : AssignOnSuccess(op, o) /\ ServerSync
    \/ InChapter("assign") /\ \E op \in RelationOps, o \in Observers : RelationOnError(op, o) /\ ServerSync
    \/ InServer /\ \E op \in RelationOps, v \in RelationRequests : AssignRelation(op, v)
    \/ InServer /\ \E op \in RelationOps, v \in RelationRequests : RemoveRelation(op, v)

\* the manager is open on a movie of the list, with any selection, and the
\* graph holds the movie with any cast
InitAssign ==
    /\ chapter = "assign"
    /\ view = "manage"
    /\ selectedMovie \in Movies
    /\ formData = InitialFormData
    /\ selectedPerson \in {""} \cup People
    /\ relationType \in {"actor", "director"}
    /\ queryCache = [k \in {"movies", "people"} |->
            [status |-> "success",
             data |-> IF k = "movies" THEN <<{selectedMovie}>> ELSE <<People>>,
             isInvalidated |-> FALSE, fetchStatus |-> "idle",
             fetchFailureCount |-> 0]]
    /\ mutations = NoMutations
    /\ event = Quiet
    /\ SearchMounted(<<>> :> NewQuery)
    /\ sync = NoSync
    /\ \E a \in SUBSET People, d \in SUBSET People :
            server = [movies |-> SetToBag({AsNode([selectedMovie EXCEPT
                                    !.peopleActedIn = a, !.peopleDirected = d])}),
                      response |-> NoData]

SpecAssign == InitAssign /\ [][NextAssign]_vars

(***************************************************************************)
(* Properties.                                                             *)
(***************************************************************************)
\* the step that led to e was the success callback of a mutation of ops
Success(e, ops) == e.response.op \in ops /\ e.response.ok

\* the step that led to e was the failure of a request of ops whose component
\* is still mounted
Failure(e, ops) ==
    e.response.op \in ops /\ ~e.response.ok /\ e.response.link # "orphan"

\* C1: after the success callback of a mutation of any of the seven kinds the
\* ['movies'] entry is marked invalidated, the next mount of the list fetches
\* it, and a list that is shown is being fetched already.
MutationSuccessMarksMoviesStale ==
    Success(event, MutationOps) =>
        /\ queryCache["movies"].isInvalidated
        /\ MountQuery(queryCache, "movies")["movies"].fetchStatus = "fetching"
        /\ view = "list" => queryCache["movies"].fetchStatus = "fetching"

\* a relationship mutation has succeeded and the list is read again, over the
\* data of the read before
RelationSuccessRefetches ==
    /\ Success(event, RelationOps)
    /\ view = "list"
    /\ queryCache["movies"].isInvalidated
    /\ queryCache["movies"].data # NoData
    /\ queryCache["movies"].fetchStatus = "fetching"

\* C2: the ['movies'] entry becomes invalidated only in the step of a
\* mutation's success callback; a dispatch and a failed mutation leave the
\* query cache as it is.
InvalidatedOnlyOnSuccess ==
    [][/\ (queryCache'["movies"].isInvalidated /\ ~queryCache["movies"].isInvalidated)
            => Success(event', MutationOps)
       /\ (event'.request.op \in MutationOps \/ Failure(event', MutationOps))
            => queryCache' = queryCache]_vars

\* a mutation has failed while another is pending, and the entry is not
\* invalidated
FailureNotInvalidated ==
    /\ Failure(event, MutationOps)
    /\ InFlight(mutations) > 0
    /\ ~queryCache["movies"].isInvalidated
    /\ queryCache["movies"].data # NoData

\* C3: of the mutations the mounted movie form has dispatched, at most one is
\* in flight.
FormSingleFlight == Live("CreateMovie") + Live("UpdateMovie") <= 1

\* C4: of the relationship mutations the mounted manager has dispatched, at
\* most one is in flight.
ManagerSingleFlight ==
    Live("AssignActor") + Live("AssignDirector")
    + Live("RemoveActor") + Live("RemoveDirector") <= 1

FormFailureKeepsForm ==
    [][Failure(event', FormOps) =>
          /\ event'.alert # "none"
          /\ mutations'["CreateMovie"]["current"] = 0
          /\ mutations'["UpdateMovie"]["current"] = 0
          /\ formData' = formData
          /\ view' = view
          /\ selectedMovie' = selectedMovie
          /\ queryCache' = queryCache]_vars

\* C7: after the failure of a request whose component is still mounted, an
\* alert or an inline error message is shown.
FailureSurfaced ==
    Failure(event, MutationOps \cup {"GetMovies", "GetPeople"}) =>
        event.alert # "none"

FormMultiplexes ==
    [][/\ event'.request.op = "UpdateMovie" => isEditing
       /\ event'.request.op = "CreateMovie" => FormMounted /\ ~isEditing
       /\ event'.request.op \in FormOps
            => /\ InFlight(mutations') = InFlight(mutations) + 1
               /\ mutations' = Mutate(mutations, event'.request.op)]_vars

\* the edit form has dispatched UpdateMovie while CreateMovie of an earlier
\* form is still in flight
UpdateDispatchedFromEdit ==
    /\ event.request.op = "UpdateMovie"
    /\ isEditing
    /\ mutations["CreateMovie"]["orphan"] > 0

\* C10: an UpdateMovie request carries the title of the selected movie.
UpdateCarriesSelectedTitle ==
    event.request.op = "UpdateMovie" =>
        /\ selectedMovie # NoMovie
        /\ event.request.variables.title = selectedMovie.title

\* the edit form has dispatched UpdateMovie after the user changed the year
UpdateAfterEditing ==
    /\ event.request.op = "UpdateMovie"
    /\ event.request.variables.released # selectedMovie.released
    /\ event.request.variables.title = selectedMovie.title

\* C11: Add on a person who is already in the movie's loaded list for the
\* selected role shows the 'already assigned' message of that role, and no
\* step from such a selection dispatches AssignActor or AssignDirector.
AssignedPersonNotSent ==
    [][(ManagerMounted /\ selectedPerson \in Assigned(selectedMovie, relationType))
          => /\ event'.request.op \notin {"AssignActor", "AssignDirector"}
             /\ (Add /\ ~AddDisabled) =>
                    event'.alert =
                        IF relationType = "actor"
                        THEN "This person is already an actor in this movie"
                        ELSE "This person is already a director of this movie"]_vars

\* Add has been pressed on a director who is selected again as director
AlreadyDirectorShown ==
    /\ event.alert = "This person is already a director of this movie"
    /\ relationType = "director"
    /\ selectedPerson \in selectedMovie.peopleDirected
    /\ InFlight(mutations) = 0

\* C12: a RemoveActor or RemoveDirector request is sent only by a step in
\* which the user answered OK to window.confirm, and a step in which the user
\* answered Cancel sends nothing and leaves the state of the application and
\* of the caches unchanged.
RemoveNeedsConfirmation ==
    [][/\ event'.request.op \in {"RemoveActor", "RemoveDirector"}
            => event'.confirmed = "yes"
       /\ (ManagerMounted /\ event'.confirmed = "no")
            => /\ event'.request = NoRequest
               /\ UNCHANGED <<view, selectedMovie, formData, selectedPerson,
                              relationType, queryCache, mutations>>]_vars

\* the user has declined the removal of a person in the manager
RemovalDeclined ==
    /\ ManagerMounted
    /\ event.confirmed = "no"
    /\ InFlight(mutations) = 0

\* C13: a DeleteMovie request is sent only by a step in which the user
\* answered OK to window.confirm, it carries the title of a movie of the list
\* shown, and a step in which the user answered Cancel sends nothing and
\* changes no state.
DeleteNeedsConfirmation ==
    [][/\ event'.request.op = "DeleteMovie"
            => /\ event'.confirmed = "yes"
               /\ \E m \in ListMovies : event'.request.variables = [title |-> m.title]
       /\ (view = "list" /\ event'.confirmed = "no")
            => /\ event'.request = NoRequest
               /\ UNCHANGED <<view, selectedMovie, formData, selectedPerson,
                              relationType, queryCache, mutations>>]_vars

\* the user has declined the deletion of a movie of the list
DeletionDeclined ==
    /\ view = "list"
    /\ event.confirmed = "no"
    /\ ListMovies # {}
    /\ InFlight(mutations) = 0

\* a fetch of the key ['search', term] starts in the step
SearchCallStarts(term) ==
    /\ term \in DOMAIN searchCache'
    /\ searchCache'[term].fetchStatus = "fetching"
    /\ \/ term \notin DOMAIN searchCache
       \/ searchCache[term].fetchStatus # "fetching"

\* C14: a fetch of a key ['search', term] starts only in a step that makes
\* the text of the box, which is not blank, the active term;
\* a step that changes the text of the box while Search stays mounted leaves
\* the active term and the entries unchanged; no step from a blank text
\* changes the active term or starts a call; and the entry of the empty term
\* is never fetched.
SearchOnlyOnSubmit ==
    [][/\ \A t \in SearchInputs :
            SearchCallStarts(t)
                => /\ Trim(searchTerm) # <<>>
                   /\ t = searchTerm
                   /\ activeSearch' = t
                   /\ activeSearch # t
                   /\ searchTerm' = searchTerm
       /\ (searchTerm' # searchTerm /\ view' = view)
            => (activeSearch' = activeSearch /\ searchCache' = searchCache)
       /\ (Trim(searchTerm) = <<>> /\ view' = view)
            => (activeSearch' = activeSearch
                /\ \A t \in SearchInputs : ~SearchCallStarts(t))
       /\ searchCache'[<<>>] = NewQuery]_vars

\* the user has typed a blank text over a term whose search is still being
\* fetched
BlankTypedWhileSearching ==
    /\ searchTerm = <<" ">>
    /\ activeSearch = <<"a">>
    /\ searchCache[<<"a">>].fetchStatus = "fetching"
    /\ DOMAIN searchCache = {<<>>, <<"a">>}

InvalidationReadIsFresh ==
    [][MoviesStored /\ InFlight(mutations') = 0 => sync'.cache]_vars

\* C17: the movie whose cast and directors the relationship manager displays,
\* checks in handleAssign and filters the people by was read from the server
\* after every relationship mutation that has succeeded.
ManagerReflectsServer ==
    chapter = "chapter7" /\ ManagerMounted => sync.selected

\* a component holding useQuery([key]) mounts
ReadStarts(key) ==
    /\ key \notin ActiveKeys(view, selectedMovie)
    /\ key \in ActiveKeys(view', selectedMovie')

\* Search turns to the key ['search', term], and the query is enabled
SearchReadStarts(term) ==
    /\ SearchEnabled(term)
    /\ ~SearchObserved(term)
    /\ view' = "list" /\ activeSearch' = term

\* what a read does to the entry q of its key, q2 being the entry after it
ReadContract(q, q2) ==
    IF IsStale(q)
    THEN q2.fetchStatus = "fetching" /\ q2.data = q.data
    ELSE q2 = q

\* a transport call for the entry q has been answered and stored in q2
ResultStored(q, q2) ==
    q.fetchStatus = "fetching" /\ q2.fetchStatus = "idle" /\ q2.status = "success"

\* C18: a read of a key whose entry is not stale leaves the entry as it is,
\* with no transport call; a read of a key with no entry or a stale entry
\* leaves a transport call in flight for the key, and the answer is stored as
\* the data of that key's entry; a step that changes the data of the entry of
\* ['movies'], ['people'] or ['search', term] stores the answer to a call of
\* that key and changes the entry of no other key.
CacheReadContract ==
    [][/\ \A k \in {"movies", "people"} :
            /\ ReadStarts(k) => ReadContract(queryCache[k], queryCache'[k])
            /\ ResultStored(queryCache[k], queryCache'[k]) =>
                    queryCache'[k].data # NoData
            /\ queryCache'[k].data # queryCache[k].data =>
                    /\ ResultStored(queryCache[k], queryCache'[k])
                    /\ \A j \in {"movies", "people"} \ {k} :
                            queryCache'[j] = queryCache[j]
                    /\ searchCache' = searchCache
       /\ \A t \in SearchInputs :
            LET q == SearchEntry(searchCache, t)
                q2 == SearchEntry(searchCache', t) IN
            /\ SearchReadStarts(t) => ReadContract(q, q2)
            /\ ResultStored(q, q2) => q2.data # NoData
            /\ q2.data # q.data =>
                    /\ ResultStored(q, q2)
                    /\ queryCache' = queryCache
                    /\ \A u \in SearchInputs \ {t} :
                            SearchEntry(searchCache', u) = SearchEntry(searchCache, u)
      ]_vars

\* the search box has turned again to a term whose entry holds data, while
\* the entry of another term holds its own data: the call is sent again and
\* both entries keep their data
StaleEntryRefetched ==
    \E t \in DOMAIN searchCache, u \in DOMAIN searchCache :
        /\ t # u
        /\ activeSearch = t
        /\ searchCache[t].data # NoData
        /\ searchCache[t].fetchStatus = "fetching"
        /\ searchCache[u].data # NoData
        /\ searchCache[u].data # searchCache[t].data

\* the transport calls made by the fetch of entry q so far: one per failure,
\* and the one in flight
CallsMade(q) == q.fetchFailureCount + (IF q.fetchStatus = "fetching" THEN 1 ELSE 0)

ReadOps == {"GetMovies", "GetPeople"}

\* C19: the fetch of ['movies'] or ['people'] makes at most two transport
\* calls (one retry), and the step that reports its error ends the fetch and
\* sends nothing; a dispatch of a mutation puts exactly one request in
\* flight, and a failed mutation leaves the requests in flight one fewer and
\* sends nothing.
RetriesBounded ==
    [][/\ \A k \in {"movies", "people"} :
            /\ CallsMade(queryCache'[k]) <= Retry + 1
            /\ queryCache'[k].fetchFailureCount > queryCache[k].fetchFailureCount
               /\ queryCache'[k].fetchStatus = "fetching"
                    => queryCache'[k].fetchFailureCount <= Retry
       /\ event'.request.op \in MutationOps =>
            InFlight(mutations') = InFlight(mutations) + 1
       /\ event'.response.op \in MutationOps /\ ~event'.response.ok =>
            /\ InFlight(mutations') = InFlight(mutations) - 1
            /\ event'.request = NoRequest
       /\ event'.response.op \in ReadOps =>
            /\ ~event'.response.ok
            /\ event'.request = NoRequest
            /\ \E k \in {"movies", "people"} :
                    /\ event'.response.op = ReadOp(k)
                    /\ queryCache[k].fetchStatus = "fetching"
                    /\ queryCache'[k].fetchStatus = "idle"
                    /\ queryCache'[k].status = "error"
      ]_vars

\* a read has failed twice and its error is shown in the list, while a
\* mutation is in flight
ReadFailedAfterRetry ==
    /\ event.response.op = "GetMovies"
    /\ event.alert = "Error: "
    /\ queryCache["movies"].status = "error"
    /\ queryCache["movies"].fetchFailureCount = Retry + 1
    /\ InFlight(mutations) > 0

\* C20: the GetMovies that follows a successful CreateMovie answers with
\* exactly one movie that carries the created title.
CreatedTitleListedOnce ==
    [][/\ event.request.op = "CreateMovie"
       /\ event.response.ok
       /\ event'.request.op = "GetMovies"
       => TitleCount(server'.response[1], event.request.variables.title) = 1]_vars

\* C21: an UpdateMovie for a title leaves as many nodes with that title as
\* there were, each of them with the released year and the tagline of the
\* request, and leaves the nodes of every other title as they were.
UpdateReachesEveryNode ==
    [][event'.request.op = "UpdateMovie" =>
        LET v == event'.request.variables IN
        /\ TitleCount(server'.movies, v.title) = TitleCount(server.movies, v.title)
        /\ \A n \in WithTitle(server'.movies, v.title) :
                n.released = v.released /\ n.tagline = v.tagline
        /\ \A t \in (Titles \cup TypedTitles) \ {v.title} :
                Carrying(server'.movies, t) = Carrying(server.movies, t)
        /\ BagCardinality(server'.movies) = BagCardinality(server.movies)]_vars

\* an update has answered with two nodes of one title, and the graph holds a
\* node of another title
UpdatedTwoNodes ==
    /\ event.request.op = "UpdateMovie"
    /\ BagCardinality(server.response[1]) >= 2
    /\ TitleCount(server.movies, event.request.variables.title) >= 2
    /\ BagCardinality(server.movies)
            > TitleCount(server.movies, event.request.variables.title)

\* C22: a DeleteMovie for a title removes the nodes that carry it and no
\* other, and answers without error with their number as nodesDeleted: zero
\* and an unchanged graph when no node carries the title, one when one does;
\* the GetMovies that follows lists no movie with the title.
DeleteRemovesAndCounts ==
    [][/\ event'.request.op = "DeleteMovie" =>
            LET t == event'.request.variables.title
                n == TitleCount(server.movies, t) IN
            /\ event'.response.ok
            /\ server'.response[1].nodesDeleted = n
            /\ TitleCount(server'.movies, t) = 0
            /\ BagCardinality(server'.movies) = BagCardinality(server.movies) - n
            /\ \A u \in (Titles \cup TypedTitles) \ {t} :
                    Carrying(server'.movies, u) = Carrying(server.movies, u)
            /\ n = 0 => server'.movies = server.movies
       /\ event.request.op = "DeleteMovie" /\ event'.request.op = "GetMovies" =>
            TitleCount(server'.response[1], event.request.variables.title) = 0]_vars

\* a delete has removed the one node of its title and has left another node
DeletedOneNode ==
    /\ event.request.op = "DeleteMovie"
    /\ server.response[1].nodesDeleted = 1
    /\ BagCardinality(server.movies) > 0

\* the node of the graph that the selected movie was read from
SelectedNode == CHOOSE n \in BagToSet(server.movies) : n.title = selectedMovie.title

\* the relationships of the selected movie as loaded are those of the graph
SnapshotCurrent ==
    /\ BagToSet(SelectedNode.peopleActedIn) = selectedMovie.peopleActedIn
    /\ BagToSet(SelectedNode.peopleDirected) = selectedMovie.peopleDirected

\* C23: an AssignActor answered by the service succeeds and leaves every
\* movie of the title with exactly one ACTED_IN relationship to the person,
\* the graph being unchanged when the relationship existed; and while the
\* loaded movie is current and holds the selected person as an actor, no step
\* of the manager sends AssignActor.
AssignActorIdempotent ==
    [][/\ event'.response = Response("AssignActor", TRUE, "current")
            /\ event'.request.op = "AssignActor" =>
            LET v == event'.request.variables IN
            /\ \A n \in WithTitle(server'.movies, v.movieTitle) :
                    Edges(n.peopleActedIn, v.actorName) = 1
            /\ (\A n \in WithTitle(server.movies, v.movieTitle) :
                    Edges(n.peopleActedIn, v.actorName) >= 1)
                => server'.movies = server.movies
       /\ /\ ManagerMounted
          /\ relationType = "actor"
          /\ selectedPerson \in selectedMovie.peopleActedIn
          /\ SnapshotCurrent
          => ~(event'.request.op = "AssignActor" /\ event'.response = NoResponse)]_vars

\* Add was pressed for an actor whom the current snapshot and the graph hold
SecondAssignStopped ==
    /\ event.alert = "This person is already an actor in this movie"
    /\ SnapshotCurrent
    /\ Edges(SelectedNode.peopleActedIn, selectedPerson) = 1

\* a string with its letters in lower case
LowerCase(string) ==
    [i \in 1..Len(string) |->
        IF string[i] = "A" THEN "a" ELSE IF string[i] = "M" THEN "m" ELSE string[i]]

\* the term occurs in the title or in the tagline of a node, whatever the case
MatchesAnyCase(n, term) ==
    \/ Contains(LowerCase(n.title), LowerCase(term))
    \/ Contains(LowerCase(Characters(n.tagline)), LowerCase(term))

\* C24: the answer to SearchAll lists, in ascending order of released, each
\* movie of the graph whose title or tagline contains the term in any case,
\* and no other movie.
SearchAllAnyCase ==
    [][event'.request.op = "SearchAll" =>
        LET term == event'.request.variables.searchTerm
            list == server'.response[1] IN
        /\ \A n \in BagToSet(server.movies) :
                Cardinality({i \in 1..Len(list) : list[i] = n})
                    = IF MatchesAnyCase(n, term) THEN server.movies[n] ELSE 0
        /\ \A i \in 1..Len(list) : list[i] \in BagToSet(server.movies)
        /\ \A i \in 1..(Len(list) - 1) :
                Year(list[i].released) <= Year(list[i + 1].released)]_vars

\* C25: the success or the failure of a mutation whose form or manager has
\* unmounted since the dispatch leaves the view as it is, and leaves the
\* selected movie of an edit form or of a manager that is shown as it is.
OrphanCompletionKeepsView ==
    [][/\ event'.response.op \in FormOps \cup RelationOps
       /\ event'.response.link = "orphan"
       => /\ view' = view
          /\ view \in {"edit", "manage"} => selectedMovie' = selectedMovie]_vars

\* C26: a CreateMovie request that the form sends carries a title and a
\* released year, the two variables the document declares with '!'.
CreateSuppliesRequired ==
    event.request.op = "CreateMovie" =>
        /\ event.request.variables.title \notin {UndefinedTitle, EmptyTitle}
        /\ event.request.variables.released \notin {Undefined, NaN}

\* C27: the movie that the manager shows after Manage Relationships on a
\* search result was read from the service after the last mutation that
\* succeeded.
SearchSelectionReflectsServer ==
    chapter = "select" /\ ManagerMounted => sync.selected

\* C28: while the manager is shown, a person who is selected is not in the
\* loaded list of the movie for the selected role, and Add never ends in one
\* of the two 'already assigned' alerts.
SelectedPersonIsUnassigned ==
    /\ ManagerMounted /\ selectedPerson # "" =>
            selectedPerson \notin Assigned(selectedMovie, relationType)
    /\ event.alert \notin {"This person is already an actor in this movie",
                           "This person is already a director of this movie"}

\* an actor of the movie has been chosen as director and Add has sent the
\* request
ActorAddedAsDirector ==
    /\ ManagerMounted
    /\ relationType = "director"
    /\ selectedPerson \in selectedMovie.peopleActedIn
    /\ event.request.op = "AssignDirector"

ViewHasItsMovie(v, movie) ==
    /\ v \in Views
    /\ v \in {"edit", "manage"} => movie # NoMovie

\* C30: in every state the view is list, create, edit or manage, and a movie
\* is selected while the view is edit or manage; after Cancel or Done and
\* after the success callback of a form or relationship mutation, which call
\* handleComplete, the view is list and no movie is selected.
ViewMachineInvariant ==
    [][/\ ViewHasItsMovie(view, selectedMovie)
       /\ ViewHasItsMovie(view', selectedMovie')
       /\ (Cancel \/ Success(event', FormOps \cup RelationOps))
            => view' = "list" /\ selectedMovie' = NoMovie]_vars

\* Done was pressed in the manager of a movie while a removal is in flight
ManagerClosedByDone ==
    /\ event = Quiet
    /\ view = "list"
    /\ selectedMovie = NoMovie
    /\ mutations["RemoveActor"]["orphan"] > 0

====
